---- MODULE Spec2Model ----
(***************************************************************************)
(* A model of autosum.py: the shift / business-date accounting of the      *)
(* invoice bot.  The SQLite file totals.db is the durable state (tables    *)
(* history, totals, old_totals); the bot process is a single event loop    *)
(* whose handlers run one at a time.                                       *)
(*                                                                         *)
(* Amounts are integers of a unit in which every sum is exact (the code    *)
(* stores REAL; rounding of binary floating point is not modelled).        *)
(***************************************************************************)
EXTENDS Integers, Sequences, FiniteSets, TLC

VARIABLES
    history,     \* table history: the committed rows, in id (AUTOINCREMENT) order
    totals,      \* table totals: function from primary key to [total, invoices]
    old_totals,  \* table old_totals: the bag of its committed rows
    pc,          \* position of the bot process
    tx,          \* the open, uncommitted sqlite3 transaction of update_total
    ctx,         \* locals of the running handle_message call
    clock,       \* index in Instants of the last value datetime.now() returned
    last,        \* the handler that is running, with its arguments
    reply,       \* the figures of the message the handler is about to send
    prior,       \* while idle: what the last handler (or main) did to the tables
    zeroed,      \* a Reset or New Data handler has run since the database was created
    probe,       \* classifier check: the datetime handed to the classifier
    answer,      \* classifier check: what the classifier returned for probe
    task,        \* handlers in flight: each handler coroutine's position and locals
    loop         \* handlers in flight: the coroutine the event loop is running, or 0

vars == <<history, totals, old_totals, pc, tx, ctx, clock, last, reply, prior, zeroed,
          probe, answer, task, loop>>

None == "none"

(***************************************************************************)
(* datetime: date, time, strftime, date - timedelta(days=1)                *)
(***************************************************************************)
Date(y, m, d) == [year |-> y, month |-> m, day |-> d]

Time(h, m, s, us) == [hour |-> h, minute |-> m, second |-> s, microsecond |-> us]

DateTime(d, t) == [date |-> d, time |-> t]

\* datetime.time ordering: (hour, minute, second, microsecond) compared in turn
TimeLT(a, b) ==
    \/ a.hour < b.hour
    \/ a.hour = b.hour /\ a.minute < b.minute
    \/ a.hour = b.hour /\ a.minute = b.minute /\ a.second < b.second
    \/ a.hour = b.hour /\ a.minute = b.minute /\ a.second = b.second
       /\ a.microsecond < b.microsecond

TimeLE(a, b) == a = b \/ TimeLT(a, b)

IsLeap(y) == y % 4 = 0 /\ (y % 100 # 0 \/ y % 400 = 0)

DaysInMonth(y, m) ==
    IF m = 2 THEN (IF IsLeap(y) THEN 29 ELSE 28)
    ELSE IF m \in {4, 6, 9, 11} THEN 30 ELSE 31

\* today - timedelta(days=1)
MinusOneDay(d) ==
    IF d.day > 1 THEN Date(d.year, d.month, d.day - 1)
    ELSE IF d.month > 1 THEN Date(d.year, d.month - 1, DaysInMonth(d.year, d.month - 1))
    ELSE Date(d.year - 1, 12, 31)

Digit(n) == <<"0", "1", "2", "3", "4", "5", "6", "7", "8", "9">>[n + 1]

Pad2(n) == Digit((n \div 10) % 10) \o Digit(n % 10)

Pad4(n) == Pad2(n \div 100) \o Pad2(n % 100)

\* strftime("%Y-%m-%d")
StrfDate(d) == Pad4(d.year) \o "-" \o Pad2(d.month) \o "-" \o Pad2(d.day)

\* strftime("%Y-%m-%d %H:%M:%S"): the microseconds are dropped
StrfDateTime(dt) ==
    StrfDate(dt.date) \o " " \o Pad2(dt.time.hour) \o ":" \o Pad2(dt.time.minute)
        \o ":" \o Pad2(dt.time.second)

(***************************************************************************)
(* Shifts                                                                  *)
(***************************************************************************)
SHIFT1_START == Time(6, 0, 0, 0)
SHIFT1_END == Time(18, 0, 0, 0)
SHIFT2_START == Time(18, 1, 0, 0)
SHIFT2_END == Time(22, 0, 0, 0)
SHIFT3_START == Time(20, 1, 0, 0)
SHIFT3_END == Time(6, 0, 0, 0)

Shifts == {"shift1", "shift2", "shift3"}

Classified(sh, bd, br) == [shift |-> sh, business_date |-> bd, branch |-> br]

NoAnswer == Classified(None, None, None)

\* fault: the end of shift 1 compared with < instead of <=
get_shift_and_business_date_open_end(now_dt) ==
    LET t == now_dt.time
        today == now_dt.date
    IN  IF TimeLE(SHIFT1_START, t) /\ TimeLT(t, SHIFT1_END)
            THEN Classified("shift1", StrfDate(today), "shift1")
        ELSE IF TimeLE(SHIFT2_START, t) /\ TimeLE(t, SHIFT2_END)
            THEN Classified("shift2", StrfDate(today), "shift2")
        ELSE IF TimeLE(SHIFT3_START, t)
            THEN Classified("shift3", StrfDate(today), "shift3_evening")
        ELSE IF TimeLT(t, SHIFT3_END)
            THEN Classified("shift3", StrfDate(MinusOneDay(today)), "shift3_night")
        ELSE Classified("shift3", StrfDate(today), "fallback")

\* fault: the night part of shift 3 keeps the calendar date
get_shift_and_business_date_night_today(now_dt) ==
    LET t == now_dt.time
        today == now_dt.date
    IN  IF TimeLE(SHIFT1_START, t) /\ TimeLE(t, SHIFT1_END)
            THEN Classified("shift1", StrfDate(today), "shift1")
        ELSE IF TimeLE(SHIFT2_START, t) /\ TimeLE(t, SHIFT2_END)
            THEN Classified("shift2", StrfDate(today), "shift2")
        ELSE IF TimeLE(SHIFT3_START, t)
            THEN Classified("shift3", StrfDate(today), "shift3_evening")
        ELSE IF TimeLT(t, SHIFT3_END)
            THEN Classified("shift3", StrfDate(today), "shift3_night")
        ELSE Classified("shift3", StrfDate(today), "fallback")

\* fault: the evening window of shift 3 is tested before shift 2
get_shift_and_business_date_shift3_first(now_dt) ==
    LET t == now_dt.time
        today == now_dt.date
    IN  IF TimeLE(SHIFT1_START, t) /\ TimeLE(t, SHIFT1_END)
            THEN Classified("shift1", StrfDate(today), "shift1")
        ELSE IF TimeLE(SHIFT3_START, t)
            THEN Classified("shift3", StrfDate(today), "shift3_evening")
        ELSE IF TimeLE(SHIFT2_START, t) /\ TimeLE(t, SHIFT2_END)
            THEN Classified("shift2", StrfDate(today), "shift2")
        ELSE IF TimeLT(t, SHIFT3_END)
            THEN Classified("shift3", StrfDate(MinusOneDay(today)), "shift3_night")
        ELSE Classified("shift3", StrfDate(today), "fallback")

\* get_shift_and_business_date(now_dt); branch names the return statement taken
get_shift_and_business_date(now_dt) ==
    LET t == now_dt.time
        today == now_dt.date
    IN  IF TimeLE(SHIFT1_START, t) /\ TimeLE(t, SHIFT1_END)
            THEN Classified("shift1", StrfDate(today), "shift1")
        ELSE IF TimeLE(SHIFT2_START, t) /\ TimeLE(t, SHIFT2_END)
            THEN Classified("shift2", StrfDate(today), "shift2")
        ELSE IF TimeLE(SHIFT3_START, t)
            THEN Classified("shift3", StrfDate(today), "shift3_evening")
        ELSE IF TimeLT(t, SHIFT3_END)
            THEN Classified("shift3", StrfDate(MinusOneDay(today)), "shift3_night")
        ELSE Classified("shift3", StrfDate(today), "fallback")

(***************************************************************************)
(* Bounds and inputs                                                       *)
(***************************************************************************)
MaxHistory == 2     \* rows of history the model lets the bot write

MaxOld == 2         \* rows of old_totals the model lets the bot write

ADMINS == {2122623994}

Chats == {1, 2}

Currencies == {"USD", "KHR"}

\* the parsed amounts of one text message, (amount, currency) pairs as
\* extract_currency_amounts returns them (the sign is optional)
Messages ==
    { << <<5, "USD">> >>, << <<-5, "USD">> >>, << <<5, "USD">>, <<5, "KHR">> >> }

\* the text messages with amounts the chats send: (chat_id, parsed amounts)
Updates == {<<1, m>> : m \in Messages} \cup {<<2, << <<5, "USD">> >> >>}

\* the values datetime.now() returns, in the order the wall clock passes them
Instants ==
    << DateTime(Date(2024, 1, 1), Time(21, 0, 0, 0)),
       DateTime(Date(2024, 1, 2), Time(1, 0, 0, 500000)),
       DateTime(Date(2024, 1, 2), Time(7, 30, 0, 0)) >>

\* get_shift_and_business_date() at each of them
ClassAt == [i \in DOMAIN Instants |-> get_shift_and_business_date(Instants[i])]

\* datetime.now(): the wall clock does not run backwards
Nows == {i \in DOMAIN Instants : i >= clock}

(***************************************************************************)
(* Tables                                                                  *)
(***************************************************************************)
\* PRIMARY KEY (chat_id, date, shift, currency) of totals
Key(chat_id, date, shift, currency) == <<chat_id, date, shift, currency>>

Row(total, invoices) == [total |-> total, invoices |-> invoices]

HistoryKey(r) == Key(r.chat_id, r.business_date, r.shift, r.currency)

\* fault: INSERT OR REPLACE with the id of the newest row, which it overwrites
InsertHistory_replace(h, chat_id, now_dt, cls, currency, amount) ==
    LET row(id) == [id |-> id,
                    chat_id |-> chat_id,
                    datetime |-> StrfDateTime(now_dt),
                    business_date |-> cls.business_date,
                    shift |-> cls.shift,
                    currency |-> currency,
                    amount |-> amount]
    IN  IF h = <<>> THEN <<row(1)>> ELSE [h EXCEPT ![Len(h)] = row(Len(h))]

\* INSERT INTO history (chat_id, datetime, business_date, shift, currency, amount)
InsertHistory(h, chat_id, now_dt, cls, currency, amount) ==
    Append(h, [id |-> Len(h) + 1,
               chat_id |-> chat_id,
               datetime |-> StrfDateTime(now_dt),
               business_date |-> cls.business_date,
               shift |-> cls.shift,
               currency |-> currency,
               amount |-> amount])

\* fault: the UPDATE writes the amount instead of total + amount
IncrementTotals_overwrite(t, key, amount) ==
    IF key \in DOMAIN t
        THEN [t EXCEPT ![key] = Row(amount, t[key].invoices + 1)]
        ELSE [k \in DOMAIN t \cup {key} |-> IF k = key THEN Row(amount, 1) ELSE t[k]]

\* the running totals of update_total: SELECT the row, then UPDATE it or INSERT it
IncrementTotals(t, key, amount) ==
    IF key \in DOMAIN t
        THEN [t EXCEPT ![key] = Row(t[key].total + amount, t[key].invoices + 1)]
        ELSE [k \in DOMAIN t \cup {key} |-> IF k = key THEN Row(amount, 1) ELSE t[k]]

EmptyTotals == [k \in {} |-> Row(0, 0)]

\* DELETE FROM totals
DeleteTotals(t) == EmptyTotals

\* SELECT ... SUM(amount), COUNT(*) FROM history GROUP BY chat_id, business_date,
\* shift, currency: one accumulator per group, fed row by row
RECURSIVE GroupHistory(_, _)
GroupHistory(h, acc) ==
    IF h = <<>> THEN acc
    ELSE LET r == Head(h)
             k == HistoryKey(r)
             a == IF k \in DOMAIN acc
                      THEN Row(acc[k].total + r.amount, acc[k].invoices + 1)
                      ELSE Row(r.amount, 1)
         IN  GroupHistory(Tail(h), [x \in DOMAIN acc \cup {k} |->
                                        IF x = k THEN a ELSE acc[x]])

\* INSERT OR REPLACE INTO totals, once per row of the SELECT
RECURSIVE InsertOrReplaceAll(_, _)
InsertOrReplaceAll(t, rows) ==
    IF DOMAIN rows = {} THEN t
    ELSE LET k == CHOOSE x \in DOMAIN rows : TRUE
         IN  InsertOrReplaceAll(
                 [x \in DOMAIN t \cup {k} |-> IF x = k THEN rows[k] ELSE t[x]],
                 [x \in DOMAIN rows \ {k} |-> rows[x]])

\* fault: no DELETE, and INSERT OR IGNORE: a row already in totals is kept
recalc_totals_from_history_keep(t, h) ==
    LET g == GroupHistory(h, EmptyTotals)
    IN  [k \in DOMAIN t \cup DOMAIN g |-> IF k \in DOMAIN t THEN t[k] ELSE g[k]]

\* fault: no DELETE, and the group sums are added to the rows already in totals
recalc_totals_from_history_add(t, h) ==
    LET g == GroupHistory(h, EmptyTotals)
    IN  [k \in DOMAIN t \cup DOMAIN g |->
            IF k \in DOMAIN t /\ k \in DOMAIN g
                THEN Row(t[k].total + g[k].total, t[k].invoices + g[k].invoices)
            ELSE IF k \in DOMAIN t THEN t[k] ELSE g[k]]

\* fault: the DELETE runs and the INSERTs are missing
recalc_totals_from_history_delete_only(t, h) == DeleteTotals(t)

\* recalc_totals_from_history: the totals table it commits
recalc_totals_from_history(t, h) ==
    InsertOrReplaceAll(DeleteTotals(t), GroupHistory(h, EmptyTotals))

RECURSIVE SumTotal(_, _)
SumTotal(t, keys) ==
    IF keys = {} THEN 0
    ELSE LET k == CHOOSE x \in keys : TRUE
         IN  t[k].total + SumTotal(t, keys \ {k})

RECURSIVE SumInvoices(_, _)
SumInvoices(t, keys) ==
    IF keys = {} THEN 0
    ELSE LET k == CHOOSE x \in keys : TRUE
         IN  t[k].invoices + SumInvoices(t, keys \ {k})

\* fault: data starts as an empty dict, a currency without rows is absent
get_totals_no_defaults(t, chat_id, date_str, shift) ==
    LET rows(c) == IF shift # None
                       THEN {k \in DOMAIN t : k = Key(chat_id, date_str, shift, c)}
                       ELSE {k \in DOMAIN t : /\ k[1] = chat_id /\ k[2] = date_str
                                              /\ k[4] = c}
    IN  [c \in {x \in Currencies : rows(x) # {}} |->
            Row(SumTotal(t, rows(c)), SumInvoices(t, rows(c)))]

\* get_totals(chat_id, date_str, shift): shift None sums the shifts of the date
get_totals(t, chat_id, date_str, shift) ==
    LET rows(c) == IF shift # None
                       THEN {k \in DOMAIN t : k = Key(chat_id, date_str, shift, c)}
                       ELSE {k \in DOMAIN t : /\ k[1] = chat_id /\ k[2] = date_str
                                              /\ k[4] = c}
    IN  [c \in Currencies |->
            IF rows(c) = {} THEN Row(0, 0)
            ELSE Row(SumTotal(t, rows(c)), SumInvoices(t, rows(c)))]

\* old_totals has no key and no query reads the order of its rows: the table is
\* the bag of its rows, a function from each row to the number of its copies
EmptyOld == [r \in {} |-> 0]

InsertOldRow(o, r) ==
    [x \in DOMAIN o \cup {r} |->
        IF x = r THEN (IF r \in DOMAIN o THEN o[r] + 1 ELSE 1) ELSE o[x]]

RECURSIVE OldSize(_)
OldSize(o) ==
    IF DOMAIN o = {} THEN 0
    ELSE LET r == CHOOSE x \in DOMAIN o : TRUE
         IN  o[r] + OldSize([x \in DOMAIN o \ {r} |-> o[x]])

RECURSIVE SumOld(_, _, _, _)
SumOld(o, chat_id, date_str, c) ==
    IF DOMAIN o = {} THEN Row(0, 0)
    ELSE LET r == CHOOSE x \in DOMAIN o : TRUE
             rest == SumOld([x \in DOMAIN o \ {r} |-> o[x]], chat_id, date_str, c)
         IN  IF r.chat_id = chat_id /\ r.date = date_str /\ r.currency = c
                 THEN Row(o[r] * r.total + rest.total, o[r] * r.invoices + rest.invoices)
                 ELSE rest

\* get_old_totals(chat_id, date_str): SUM over old_totals GROUP BY currency
get_old_totals(o, chat_id, date_str) ==
    [c \in Currencies |-> SumOld(o, chat_id, date_str, c)]

\* the SELECT of move_to_old: the currencies with a totals row at the key, in the
\* order of the primary key index
MoveRows(t, chat_id, shift, date_str) ==
    LET has(c) == Key(chat_id, date_str, shift, c) \in DOMAIN t
    IN  (IF has("KHR") THEN <<"KHR">> ELSE <<>>) \o (IF has("USD") THEN <<"USD">> ELSE <<>>)

\* the INSERTs of move_to_old: one old_totals row per selected totals row
RECURSIVE InsertOld(_, _, _, _, _, _)
InsertOld(o, t, rows, chat_id, shift, date_str) ==
    IF rows = <<>> THEN o
    ELSE LET c == Head(rows)
             r == t[Key(chat_id, date_str, shift, c)]
         IN  InsertOld(InsertOldRow(o, [chat_id |-> chat_id, date |-> date_str,
                                        shift |-> shift, currency |-> c,
                                        total |-> r.total, invoices |-> r.invoices]),
                       t, Tail(rows), chat_id, shift, date_str)

\* fault: the UPDATE sets total = 0 only
ZeroShift_total_only(t, chat_id, shift, date_str) ==
    [k \in DOMAIN t |->
        IF k[1] = chat_id /\ k[2] = date_str /\ k[3] = shift
            THEN Row(0, t[k].invoices) ELSE t[k]]

\* UPDATE totals SET total = 0, invoices = 0 WHERE chat_id, date, shift
ZeroShift(t, chat_id, shift, date_str) ==
    [k \in DOMAIN t |->
        IF k[1] = chat_id /\ k[2] = date_str /\ k[3] = shift THEN Row(0, 0) ELSE t[k]]

\* fault: the INSERT into old_totals is missing, the rows are zeroed unarchived
move_to_old_old_none(o, t, chat_id, shift, date_str) == o

\* move_to_old: the old_totals table it commits
move_to_old_old(o, t, chat_id, shift, date_str) ==
    InsertOld(o, t, MoveRows(t, chat_id, shift, date_str), chat_id, shift, date_str)

\* fault: the UPDATE that zeroes the rows is missing
move_to_old_totals_keep(t, chat_id, shift, date_str) == t

\* move_to_old: the totals table it commits
move_to_old_totals(t, chat_id, shift, date_str) ==
    IF MoveRows(t, chat_id, shift, date_str) # <<>>
        THEN ZeroShift(t, chat_id, shift, date_str)
        ELSE t

\* fault: the WHERE clause of the UPDATE lacks the date
ResetTotals_all_dates(t, chat_id, date_str) ==
    [k \in DOMAIN t |-> IF k[1] = chat_id THEN Row(0, 0) ELSE t[k]]

\* Reset: UPDATE totals SET total = 0, invoices = 0 WHERE chat_id = ? AND date = ?
ResetTotals(t, chat_id, date_str) ==
    [k \in DOMAIN t |->
        IF k[1] = chat_id /\ k[2] = date_str THEN Row(0, 0) ELSE t[k]]

(***************************************************************************)
(* The bot process: one event loop, one handler at a time.  A handler does *)
(* its database work without awaiting, then awaits the send of its reply.  *)
(***************************************************************************)
Last(op, chat_id, shift, date, rep) ==
    [op |-> op, chat_id |-> chat_id, shift |-> shift, date |-> date, rep |-> rep]

NoLast == Last(None, None, None, None, FALSE)

Prior(kind, chat_id, shift, date) ==
    [kind |-> kind, chat_id |-> chat_id, shift |-> shift, date |-> date]

Other == Prior("other", None, None, None)

Rebuilt == Prior("rebuilt", None, None, None)

Closed(chat_id, shift, date) == Prior("closed", chat_id, shift, date)

UtSteps == {"ut_insert", "ut_totals", "ut_commit"}

\* the handler coroutines the event loop may have in flight
Tasks == {1, 2}

Task(op, pos, amount, read) == [op |-> op, pos |-> pos, amount |-> amount, read |-> read]

\* a coroutine that has returned (or was never started)
NoTask == Task(None, "idle", 0, EmptyTotals)

cvars == <<probe, answer, task, loop>>

Init ==
    /\ history = <<>>
    /\ totals = EmptyTotals
    /\ old_totals = EmptyOld
    /\ pc = "boot"
    /\ tx = None
    /\ ctx = None
    /\ clock = 1
    /\ last = NoLast
    /\ reply = None
    /\ prior = Other
    /\ zeroed = FALSE
    /\ probe = Instants[1]
    /\ answer = NoAnswer
    /\ task = [t \in Tasks |-> NoTask]
    /\ loop = 0

\* fault: main goes to the polling loop without the rebuild
Main_no_recalc ==
    /\ pc = "boot"
    /\ pc' = "started"
    /\ UNCHANGED <<history, totals, old_totals, tx, ctx, clock, last, reply, prior, zeroed,
                   cvars>>

\* main: init_db, then recalc_totals_from_history, then the polling loop
Main ==
    /\ pc = "boot"
    /\ totals' = recalc_totals_from_history(totals, history)
    /\ pc' = "started"
    /\ UNCHANGED <<history, old_totals, tx, ctx, clock, last, reply, prior, zeroed, cvars>>

\* main: the application is built and run_polling starts taking updates
Poll ==
    /\ pc = "started"
    /\ pc' = "idle"
    /\ prior' = Rebuilt
    /\ UNCHANGED <<history, totals, old_totals, tx, ctx, clock, last, reply, zeroed, cvars>>

\* fault: the rebuild also runs DELETE FROM old_totals
RecalcCmd_wipes_old ==
    /\ pc = "idle"
    /\ \E user \in ADMINS :
        /\ totals' = recalc_totals_from_history(totals, history)
        /\ last' = Last("recalc", None, None, None, prior.kind = "rebuilt")
    /\ old_totals' = EmptyOld
    /\ pc' = "send"
    /\ prior' = Other
    /\ UNCHANGED <<history, tx, ctx, clock, reply, zeroed, cvars>>

\* /recalc from an admin (anyone else is told "Not allowed" and nothing changes)
RecalcCmd ==
    /\ pc = "idle"
    /\ \E user \in ADMINS :
        /\ totals' = recalc_totals_from_history(totals, history)
        /\ last' = Last("recalc", None, None, None, prior.kind = "rebuilt")
    /\ pc' = "send"
    /\ prior' = Other
    /\ UNCHANGED <<history, old_totals, tx, ctx, clock, reply, zeroed, cvars>>

\* handle_message, text "New Data"
NewData ==
    /\ pc = "idle"
    /\ \E chat_id \in Chats, i \in Nows :
        LET cls == ClassAt[i]
            o == move_to_old_old(old_totals, totals, chat_id, cls.shift, cls.business_date)
        IN  /\ OldSize(o) <= MaxOld
            /\ clock' = i
            /\ old_totals' = o
            /\ totals' = move_to_old_totals(totals, chat_id, cls.shift, cls.business_date)
            /\ reply' = get_old_totals(o, chat_id, cls.business_date)
            /\ last' = Last("new_data", chat_id, cls.shift, cls.business_date,
                            /\ prior.kind = "closed"
                            /\ prior = Closed(chat_id, cls.shift, cls.business_date))
    /\ pc' = "send"
    /\ prior' = Other
    /\ zeroed' = TRUE
    /\ UNCHANGED <<history, tx, ctx, cvars>>

\* handle_message, text "Total All"
TotalAll ==
    /\ pc = "idle"
    /\ \E chat_id \in Chats, i \in Nows :
        LET cls == ClassAt[i]
        IN  /\ clock' = i
            /\ reply' = get_totals(totals, chat_id, cls.business_date, None)
            /\ last' = Last("total_all", chat_id, None, cls.business_date, FALSE)
    /\ pc' = "send"
    /\ prior' = Other
    /\ UNCHANGED <<history, totals, old_totals, tx, ctx, zeroed, cvars>>

\* handle_message, text "Reset"
Reset ==
    /\ pc = "idle"
    /\ \E chat_id \in Chats, i \in Nows :
        LET cls == ClassAt[i]
        IN  /\ clock' = i
            /\ totals' = ResetTotals(totals, chat_id, cls.business_date)
            /\ last' = Last("reset", chat_id, None, cls.business_date, FALSE)
    /\ pc' = "send"
    /\ prior' = Other
    /\ zeroed' = TRUE
    /\ UNCHANGED <<history, old_totals, tx, ctx, reply, cvars>>

\* handle_message, any other text in which extract_currency_amounts finds amounts
Text ==
    /\ pc = "idle"
    /\ \E u \in Updates, i \in Nows :
        LET chat_id == u[1]
            amounts == u[2]
            cls == ClassAt[i]
        IN  /\ Len(history) + Len(amounts) <= MaxHistory
            /\ clock' = i
            /\ ctx' = [chat_id |-> chat_id, amounts |-> amounts]
            /\ last' = Last("text", chat_id, cls.shift, cls.business_date, FALSE)
    /\ pc' = "ut_insert"
    /\ prior' = Other
    /\ UNCHANGED <<history, totals, old_totals, tx, reply, zeroed, cvars>>

\* fault: the connection is in autocommit mode, the INSERT is durable at once
UtInsert_autocommit ==
    /\ pc = "ut_insert"
    /\ \E i \in Nows :
        LET now_dt == Instants[i]
            cls == ClassAt[i]
            amount == Head(ctx.amounts)[1]
            currency == Head(ctx.amounts)[2]
            h == InsertHistory(history, ctx.chat_id, now_dt, cls, currency, amount)
        IN  /\ clock' = i
            /\ history' = h
            /\ tx' = [history |-> h,
                      totals |-> totals,
                      key |-> Key(ctx.chat_id, cls.business_date, cls.shift, currency),
                      amount |-> amount]
    /\ pc' = "ut_totals"
    /\ UNCHANGED <<totals, old_totals, ctx, last, reply, prior, zeroed, cvars>>

\* update_total: datetime.now(), the classification, connect, INSERT INTO history
\* (sqlite3 opens the transaction before the INSERT)
UtInsert ==
    /\ pc = "ut_insert"
    /\ \E i \in Nows :
        LET now_dt == Instants[i]
            cls == ClassAt[i]
            amount == Head(ctx.amounts)[1]
            currency == Head(ctx.amounts)[2]
        IN  /\ clock' = i
            /\ tx' = [history |-> InsertHistory(history, ctx.chat_id, now_dt, cls,
                                                currency, amount),
                      totals |-> totals,
                      key |-> Key(ctx.chat_id, cls.business_date, cls.shift, currency),
                      amount |-> amount]
    /\ pc' = "ut_totals"
    /\ UNCHANGED <<history, totals, old_totals, ctx, last, reply, prior, zeroed, cvars>>

\* update_total: SELECT the totals row, UPDATE or INSERT it (same transaction)
UtTotals ==
    /\ pc = "ut_totals"
    /\ tx' = [tx EXCEPT !.totals = IncrementTotals(tx.totals, tx.key, tx.amount)]
    /\ pc' = "ut_commit"
    /\ UNCHANGED <<history, totals, old_totals, ctx, clock, last, reply, prior, zeroed,
                   cvars>>

\* update_total: conn.commit(), conn.close(), return; then the next amount
UtCommit ==
    /\ pc = "ut_commit"
    /\ history' = tx.history
    /\ totals' = tx.totals
    /\ tx' = None
    /\ ctx' = [ctx EXCEPT !.amounts = Tail(ctx.amounts)]
    /\ pc' = IF Tail(ctx.amounts) = <<>> THEN "ut_done" ELSE "ut_insert"
    /\ UNCHANGED <<old_totals, clock, last, reply, prior, zeroed, cvars>>

\* handle_message after the loop: get_totals of the shift and date read at its start
TextReply ==
    /\ pc = "ut_done"
    /\ reply' = get_totals(totals, last.chat_id, last.date, last.shift)
    /\ ctx' = None
    /\ pc' = "send"
    /\ UNCHANGED <<history, totals, old_totals, tx, clock, last, prior, zeroed, cvars>>

\* await reply_text / reply_document: the reply is sent and the handler returns
Send ==
    /\ pc = "send"
    /\ pc' = "idle"
    /\ prior' = IF last.op = "recalc" THEN Rebuilt
                ELSE IF last.op = "new_data" THEN Closed(last.chat_id, last.shift, last.date)
                ELSE Other
    /\ last' = NoLast
    /\ reply' = None
    /\ UNCHANGED <<history, totals, old_totals, tx, ctx, clock, zeroed, cvars>>

\* a statement or the commit of update_total raises: the connection is dropped with
\* its transaction open, which SQLite rolls back; the handler ends with the exception
UtFail ==
    /\ pc \in UtSteps
    /\ tx' = None
    /\ ctx' = None
    /\ pc' = "idle"
    /\ last' = NoLast
    /\ UNCHANGED <<history, totals, old_totals, clock, reply, prior, zeroed, cvars>>

\* the process dies: an open transaction is rolled back from the journal
Crash ==
    /\ pc # "boot"
    /\ tx' = None
    /\ ctx' = None
    /\ pc' = "boot"
    /\ last' = NoLast
    /\ reply' = None
    /\ prior' = Other
    /\ UNCHANGED <<history, totals, old_totals, clock, zeroed, cvars>>

Next ==
    \/ Main
    \/ Poll
    \/ RecalcCmd
    \/ NewData
    \/ TotalAll
    \/ Reset
    \/ Text
    \/ UtInsert
    \/ UtTotals
    \/ UtCommit
    \/ TextReply
    \/ Send
    \/ UtFail
    \/ Crash

Spec == Init /\ [][Next]_vars

(***************************************************************************)
(* The classifier alone, on every time of day at second precision          *)
(***************************************************************************)
\* the dates probed: after a new year, a plain day, after a leap day, after 28 February
ProbeDates == {Date(2024, 1, 1), Date(2024, 1, 2), Date(2024, 3, 1), Date(2023, 3, 1)}

\* datetime.now() carries microseconds: none, or some
ProbeMicros == {0, 500000}

ProbeTimes ==
    [hour : 0..23, minute : 0..59, second : 0..59, microsecond : ProbeMicros]


InitClassify ==
    /\ history = <<>>
    /\ totals = EmptyTotals
    /\ old_totals = EmptyOld
    /\ pc = "boot"
    /\ tx = None
    /\ ctx = None
    /\ clock = 1
    /\ last = NoLast
    /\ reply = None
    /\ prior = Other
    /\ zeroed = FALSE
    /\ probe \in [date : ProbeDates, time : ProbeTimes]
    /\ answer = NoAnswer
    /\ task = [t \in Tasks |-> NoTask]
    /\ loop = 0

\* get_shift_and_business_date(now_dt) is called with the probe
ClassifyProbe ==
    /\ answer.branch = None
    /\ answer' = get_shift_and_business_date(probe)
    /\ UNCHANGED <<history, totals, old_totals, pc, tx, ctx, clock, last, reply, prior,
                   zeroed, probe, task, loop>>

NextClassify == ClassifyProbe

SpecClassify == InitClassify /\ [][NextClassify]_vars

(***************************************************************************)
(* Handlers in flight.  Every handler is a coroutine of the one event loop; *)
(* the loop runs a coroutine until it awaits or returns and only then runs  *)
(* another.  The database functions are plain functions, statement after    *)
(* statement on a connection of their own; here each statement is a step.   *)
(* Connections never overlap in time, so SQLite's file lock is never        *)
(* contended, and a statement's effect is applied to the tables as it runs. *)
(***************************************************************************)
TaskChat == 1

\* the amounts of the messages the handlers in flight carry, all in USD
TaskAmounts == {5, 7}

\* every handler in flight reads the same wall clock time
TaskNow == 1

TaskKey == Key(TaskChat, ClassAt[TaskNow].business_date, ClassAt[TaskNow].shift, "USD")

\* fault: update_total awaits between its SELECT and its UPDATE
Awaits_in_update_total(pos) == pos \in {"idle", "await_send", "ut_selected"}

\* fault: recalc_totals_from_history awaits between its SELECT and its INSERTs
Awaits_in_recalc(pos) == pos \in {"idle", "await_send", "rc_selected"}

\* fault: move_to_old awaits between its SELECT and its INSERTs
Awaits_in_move_to_old(pos) == pos \in {"idle", "await_send", "mo_selected"}

\* the positions at which a handler coroutine is suspended: it has returned, or it
\* awaits the send of its reply; no database function contains an await
Awaits(pos) == pos \in {"idle", "await_send"}

\* the coroutine t may run: the loop is free, or is running t
Runs(t) == loop \in {0, t}

\* where the loop is after t has reached pos
Loop(t, pos) == IF Awaits(pos) THEN 0 ELSE t

\* the rows of t the WHERE clause chat_id, date, shift (and currency, if given) selects
SelectRows(t, chat_id, date_str, shift, currency) ==
    LET keys == {k \in DOMAIN t : /\ k[1] = chat_id /\ k[2] = date_str /\ k[3] = shift
                                  /\ currency \in {None, k[4]}}
    IN  [k \in keys |-> t[k]]

\* update_total after its SELECT: UPDATE the row with the figures read, or INSERT it
\* (an UPDATE of a row that is gone changes nothing, an INSERT of a row that exists
\* violates the primary key and changes nothing)
WriteTotals(t, key, amount, read) ==
    IF key \in DOMAIN read
        THEN IF key \in DOMAIN t
                 THEN [t EXCEPT ![key] = Row(read[key].total + amount,
                                             read[key].invoices + 1)]
                 ELSE t
        ELSE IF key \in DOMAIN t
                 THEN t
                 ELSE [k \in DOMAIN t \cup {key} |-> IF k = key THEN Row(amount, 1) ELSE t[k]]

tvars == <<pc, tx, ctx, clock, last, reply, prior, probe, answer>>

InitTasks ==
    /\ history = <<>>
    /\ totals = EmptyTotals
    /\ old_totals = EmptyOld
    /\ pc = "idle"
    /\ tx = None
    /\ ctx = None
    /\ clock = TaskNow
    /\ last = NoLast
    /\ reply = None
    /\ prior = Other
    /\ zeroed = FALSE
    /\ probe = Instants[1]
    /\ answer = NoAnswer
    /\ task = [t \in Tasks |-> NoTask]
    /\ loop = 0

\* handle_message with an amount: update_total up to its INSERT INTO history
TaskText(t) ==
    /\ Runs(t)
    /\ task[t].pos = "idle"
    /\ Len(history) < MaxHistory
    /\ \E amount \in TaskAmounts :
        /\ history' = InsertHistory(history, TaskChat, Instants[TaskNow], ClassAt[TaskNow],
                                    "USD", amount)
        /\ task' = [task EXCEPT ![t] = Task("text", "ut_inserted", amount, EmptyTotals)]
    /\ loop' = Loop(t, "ut_inserted")
    /\ UNCHANGED <<totals, old_totals, zeroed, tvars>>

\* update_total: SELECT total, invoices FROM totals WHERE the key; fetchone
TaskUtSelect(t) ==
    /\ Runs(t)
    /\ task[t].pos = "ut_inserted"
    /\ task' = [task EXCEPT ![t].pos = "ut_selected",
                            ![t].read = SelectRows(totals, TaskKey[1], TaskKey[2],
                                                   TaskKey[3], TaskKey[4])]
    /\ loop' = Loop(t, "ut_selected")
    /\ UNCHANGED <<history, totals, old_totals, zeroed, tvars>>

\* update_total: UPDATE or INSERT, commit, close; the handler then awaits its reply
TaskUtWrite(t) ==
    /\ Runs(t)
    /\ task[t].pos = "ut_selected"
    /\ totals' = WriteTotals(totals, TaskKey, task[t].amount, task[t].read)
    /\ task' = [task EXCEPT ![t].pos = "await_send"]
    /\ loop' = Loop(t, "await_send")
    /\ UNCHANGED <<history, old_totals, zeroed, tvars>>

\* handle_message "New Data": move_to_old up to its SELECT; fetchall
TaskNewData(t) ==
    /\ Runs(t)
    /\ task[t].pos = "idle"
    /\ LET read == SelectRows(totals, TaskKey[1], TaskKey[2], TaskKey[3], None)
       IN  /\ OldSize(old_totals) + Cardinality(DOMAIN read) <= MaxOld
           /\ task' = [task EXCEPT ![t] = Task("new_data", "mo_selected", 0, read)]
    /\ loop' = Loop(t, "mo_selected")
    /\ UNCHANGED <<history, totals, old_totals, zeroed, tvars>>

\* move_to_old: if rows, INSERT INTO old_totals for each; else commit and return
TaskMoInsert(t) ==
    /\ Runs(t)
    /\ task[t].pos = "mo_selected"
    /\ LET read == task[t].read
           pos == IF DOMAIN read = {} THEN "await_send" ELSE "mo_inserted"
       IN  /\ old_totals' = InsertOld(old_totals, read,
                                      MoveRows(read, TaskKey[1], TaskKey[3], TaskKey[2]),
                                      TaskKey[1], TaskKey[3], TaskKey[2])
           /\ task' = [task EXCEPT ![t].pos = pos]
           /\ loop' = Loop(t, pos)
    /\ UNCHANGED <<history, totals, zeroed, tvars>>

\* move_to_old: UPDATE totals SET total = 0, invoices = 0, commit, close; the handler
\* then reads the archive and awaits its reply
TaskMoZero(t) ==
    /\ Runs(t)
    /\ task[t].pos = "mo_inserted"
    /\ totals' = ZeroShift(totals, TaskKey[1], TaskKey[3], TaskKey[2])
    /\ zeroed' = TRUE
    /\ task' = [task EXCEPT ![t].pos = "await_send"]
    /\ loop' = Loop(t, "await_send")
    /\ UNCHANGED <<history, old_totals, tvars>>

\* recalc_cmd: recalc_totals_from_history up to its DELETE FROM totals
TaskRecalc(t) ==
    /\ Runs(t)
    /\ task[t].pos = "idle"
    /\ \E user \in ADMINS :
        totals' = DeleteTotals(totals)
    /\ task' = [task EXCEPT ![t] = Task("recalc", "rc_deleted", 0, EmptyTotals)]
    /\ loop' = Loop(t, "rc_deleted")
    /\ UNCHANGED <<history, old_totals, zeroed, tvars>>

\* recalc_totals_from_history: SELECT ... FROM history GROUP BY; fetchall
TaskRcSelect(t) ==
    /\ Runs(t)
    /\ task[t].pos = "rc_deleted"
    /\ task' = [task EXCEPT ![t].pos = "rc_selected",
                            ![t].read = GroupHistory(history, EmptyTotals)]
    /\ loop' = Loop(t, "rc_selected")
    /\ UNCHANGED <<history, totals, old_totals, zeroed, tvars>>

\* recalc_totals_from_history: INSERT OR REPLACE for each group, commit, close; the
\* handler then awaits its reply
TaskRcInsert(t) ==
    /\ Runs(t)
    /\ task[t].pos = "rc_selected"
    /\ totals' = InsertOrReplaceAll(totals, task[t].read)
    /\ task' = [task EXCEPT ![t].pos = "await_send"]
    /\ loop' = Loop(t, "await_send")
    /\ UNCHANGED <<history, old_totals, zeroed, tvars>>

\* the reply is sent: the coroutine is resumed and returns
TaskSend(t) ==
    /\ Runs(t)
    /\ task[t].pos = "await_send"
    /\ task' = [task EXCEPT ![t] = NoTask]
    /\ loop' = Loop(t, "idle")
    /\ UNCHANGED <<history, totals, old_totals, zeroed, tvars>>

NextTasks ==
    \E t \in Tasks :
        \/ TaskText(t)
        \/ TaskUtSelect(t)
        \/ TaskUtWrite(t)
        \/ TaskNewData(t)
        \/ TaskMoInsert(t)
        \/ TaskMoZero(t)
        \/ TaskRecalc(t)
        \/ TaskRcSelect(t)
        \/ TaskRcInsert(t)
        \/ TaskSend(t)

SpecTasks == InitTasks /\ [][NextTasks]_vars

(***************************************************************************)
(* Ledger against aggregate                                                *)
(***************************************************************************)
\* the ledger entries with key k
LedgerRows(h, k) == {i \in DOMAIN h : HistoryKey(h[i]) = k}

LedgerKeys(h) == {HistoryKey(h[i]) : i \in DOMAIN h}

RECURSIVE SumAmounts(_, _)
SumAmounts(h, rows) ==
    IF rows = {} THEN 0
    ELSE LET i == CHOOSE x \in rows : TRUE
         IN  h[i].amount + SumAmounts(h, rows \ {i})

\* t has exactly one row per key of the ledger h, holding the key's sum and count
Consistent(t, h) ==
    /\ DOMAIN t = LedgerKeys(h)
    /\ \A k \in DOMAIN t :
        /\ t[k].total = SumAmounts(h, LedgerRows(h, k))
        /\ t[k].invoices = Cardinality(LedgerRows(h, k))

\* C1: as long as no Reset and no New Data has run, whatever records have been made,
\* every key's totals row holds the sum and the number of the history rows with that
\* key, and a key without history rows has no totals row.
C1_RecordsKeepTotals == ~zeroed => Consistent(totals, history)

\* two records on one key, and nothing zeroed
C1_Witness ==
    /\ ~zeroed
    /\ pc = "idle"
    /\ \E k \in DOMAIN totals : totals[k].invoices = 2

\* t with the row at key k raised by amount and by one invoice (created if missing)
Bumped(t, k, amount) ==
    [x \in DOMAIN t \cup {k} |->
        IF x = k
            THEN Row((IF k \in DOMAIN t THEN t[k].total ELSE 0) + amount,
                     (IF k \in DOMAIN t THEN t[k].invoices ELSE 0) + 1)
            ELSE t[x]]

\* a step of update_total: only its commit changes the committed tables, and it
\* changes both
RecordStepIsAtomic ==
    pc \in UtSteps =>
        IF pc = "ut_commit" /\ pc' \in {"ut_done", "ut_insert"}
            THEN /\ Len(history') = Len(history) + 1
                 /\ SubSeq(history', 1, Len(history)) = history
                 /\ LET r == history'[Len(history')]
                    IN  /\ r.chat_id = ctx.chat_id
                        /\ r.amount = Head(ctx.amounts)[1]
                        /\ r.currency = Head(ctx.amounts)[2]
                        /\ totals' = Bumped(totals, HistoryKey(r), r.amount)
            ELSE history' = history /\ totals' = totals

\* C2: a record is all or nothing.  Every step taken while update_total runs leaves
\* the committed history and totals as they were -- be it a statement, an exception or
\* the death of the process -- except the commit, which adds the one history row of
\* the amount and raises the totals row of that row's key by the amount and by one.
C2_RecordAllOrNothing == [][RecordStepIsAtomic]_vars

\* the INSERT and the totals change are both made in the transaction and the commit
\* is still to come: failure and success are both possible from here
C2_Witness ==
    /\ pc = "ut_commit"
    /\ Len(tx.history) = Len(history) + 1
    /\ tx.totals # totals
    /\ history # <<>>

\* recalc_totals_from_history has just returned (in main, or in the /recalc handler)
JustRebuilt == pc = "started" \/ (pc = "send" /\ last.op = "recalc")

\* C3: when a rebuild completes, totals has exactly one row per key of history, with
\* the sum and the number of its rows, whatever Reset and New Data did before.
C3_RebuildYieldsLedgerGroups == JustRebuilt => Consistent(totals, history)

\* a rebuild after a close: a key that was archived (and zeroed) has its sums back
C3_Witness ==
    /\ JustRebuilt
    /\ zeroed
    /\ \E r \in DOMAIN old_totals :
        /\ r.invoices > 0
        /\ Key(r.chat_id, r.date, r.shift, r.currency) \in DOMAIN totals
        /\ totals[Key(r.chat_id, r.date, r.shift, r.currency)].invoices > 0

\* C4: a rebuild that runs right after a rebuild, nothing in between, leaves totals
\* as the first one left it.
C4_RebuildIdempotent ==
    [][(pc = "idle" /\ prior.kind = "rebuilt" /\ pc' = "send" /\ last'.op = "recalc")
        => totals' = totals]_vars

\* the second of two rebuilds in a row has run, on a ledger that is not empty
C4_Witness ==
    /\ pc = "send"
    /\ last.op = "recalc"
    /\ last.rep
    /\ totals # EmptyTotals

(***************************************************************************)
(* Closing a shift                                                         *)
(***************************************************************************)
\* the step in which the New Data handler does its database work
NewDataStep == pc = "idle" /\ pc' = "send" /\ last'.op = "new_data"

Plus(x, y) == Row(x.total + y.total, x.invoices + y.invoices)

\* the totals the close of step NewDataStep found at its key, per currency
ClosedTotals == get_totals(totals, last'.chat_id, last'.date, last'.shift)

CloseZeroesAndArchives ==
    NewDataStep =>
        \A c \in Currencies :
            /\ get_totals(totals', last'.chat_id, last'.date, last'.shift)[c] = Row(0, 0)
            /\ get_old_totals(old_totals', last'.chat_id, last'.date)[c]
                   = Plus(get_old_totals(old_totals, last'.chat_id, last'.date)[c],
                          ClosedTotals[c])

\* C5: right after the close of (chat, date, shift) the totals query of that key
\* reports total 0 and 0 invoices for every currency, and the archive query of
\* (chat, date) has grown, per currency, by exactly the totals and invoices the key
\* held just before the close.
C5_CloseZeroesAndArchives == [][CloseZeroesAndArchives]_vars

\* a close has just archived a row with invoices: it is the one row of the archive,
\* and the key it came from reports zero
C5_Witness ==
    /\ pc = "send"
    /\ last.op = "new_data"
    /\ OldSize(old_totals) = 1
    /\ \E r \in DOMAIN old_totals :
        /\ r.chat_id = last.chat_id /\ r.date = last.date /\ r.shift = last.shift
        /\ r.invoices > 0
        /\ r.total # 0
        /\ totals[Key(r.chat_id, r.date, r.shift, r.currency)] = Row(0, 0)

\* C6: no close ever writes an archive row for a totals row without invoices: the
\* archive holds no row with 0 invoices.
C6_NoZeroArchiveRow == \A r \in DOMAIN old_totals : r.invoices > 0

\* a close of a key that held only a zeroed row has written a row of zeros
C6_Witness ==
    /\ pc = "send"
    /\ last.op = "new_data"
    /\ last.rep
    /\ \E r \in DOMAIN old_totals :
        /\ r.chat_id = last.chat_id /\ r.date = last.date /\ r.shift = last.shift
        /\ r.total = 0
        /\ r.invoices = 0

\* the rows a step adds to old_totals
NewOldRows ==
    {r \in DOMAIN old_totals' : r \notin DOMAIN old_totals \/ old_totals'[r] > old_totals[r]}

SecondCloseAddsNothing ==
    (NewDataStep /\ last'.rep) =>
        /\ \A r \in NewOldRows : r.total = 0 /\ r.invoices = 0
        /\ get_old_totals(old_totals', last'.chat_id, last'.date)
               = get_old_totals(old_totals, last'.chat_id, last'.date)

\* C7: a close of (chat, date, shift) that comes right after a close of the same key
\* adds no archive row with a nonzero total or a nonzero number of invoices, and the
\* archive query of (chat, date) answers what it answered after the first close.
C7_SecondCloseAddsNothing == [][SecondCloseAddsNothing]_vars

\* the second of two closes of one key has run, and the first had archived invoices
C7_Witness ==
    /\ pc = "send"
    /\ last.op = "new_data"
    /\ last.rep
    /\ \E r \in DOMAIN old_totals :
        /\ r.chat_id = last.chat_id /\ r.date = last.date /\ r.shift = last.shift
        /\ r.invoices > 0

ReplyIsJustArchived ==
    NewDataStep =>
        \A c \in Currencies :
            reply'[c] =
                IF Key(last'.chat_id, last'.date, last'.shift, c) \in DOMAIN totals
                    THEN totals[Key(last'.chat_id, last'.date, last'.shift, c)]
                    ELSE Row(0, 0)

\* C8: the figures the close replies with are, per currency, the total and invoices
\* of the row it has just archived from its key, zeros when it archived none, and
\* nothing of earlier closes or of other shifts of the business date.
C8_ReplyIsJustArchived == [][ReplyIsJustArchived]_vars

\* a close that found nothing but a zeroed row at its key replies with invoices
C8_Witness ==
    /\ pc = "send"
    /\ last.op = "new_data"
    /\ get_totals(totals, last.chat_id, last.date, last.shift)
           = [c \in Currencies |-> Row(0, 0)]
    /\ last.rep
    /\ \E c \in Currencies : reply[c].invoices > 0

(***************************************************************************)
(* The classifier                                                          *)
(***************************************************************************)
SecondOfDay(t) == (t.hour * 60 + t.minute) * 60 + t.second

\* the classifier has been called with the probe
Asked == answer.branch # None

\* the probed dates and the day before each, as ISO strings, written out
IsoDay ==
    [d \in ProbeDates |->
        CASE d = Date(2024, 1, 1) -> "2024-01-01"
          [] d = Date(2024, 1, 2) -> "2024-01-02"
          [] d = Date(2024, 3, 1) -> "2024-03-01"
          [] d = Date(2023, 3, 1) -> "2023-03-01"]

IsoDayBefore ==
    [d \in ProbeDates |->
        CASE d = Date(2024, 1, 1) -> "2023-12-31"
          [] d = Date(2024, 1, 2) -> "2024-01-01"
          [] d = Date(2024, 3, 1) -> "2024-02-29"
          [] d = Date(2023, 3, 1) -> "2023-02-28"]

\* 06:00:00 <= time of day <= 18:00:00
InShift1Interval(t) ==
    \/ 6 * 3600 <= SecondOfDay(t) /\ SecondOfDay(t) < 18 * 3600
    \/ SecondOfDay(t) = 18 * 3600 /\ t.microsecond = 0

C10_Shift3Dates ==
    /\ (Asked /\ SecondOfDay(probe.time) < 6 * 3600) =>
            /\ answer.shift = "shift3"
            /\ answer.business_date = IsoDayBefore[probe.date]
    /\ (Asked /\ SecondOfDay(probe.time) >= 20 * 3600 + 60 /\ answer.shift = "shift3") =>
            answer.business_date = IsoDay[probe.date]

\* midnight of 1 March of a leap year is booked on 29 February
C10_Witness ==
    /\ Asked
    /\ probe.date = [year |-> 2024, month |-> 3, day |-> 1]
    /\ SecondOfDay(probe.time) = 0
    /\ answer.shift = "shift3"
    /\ answer.business_date = "2024-02-29"

\* 18:01:00 <= time of day <= 22:00:00
InShift2Interval(t) ==
    \/ 18 * 3600 + 60 <= SecondOfDay(t) /\ SecondOfDay(t) < 22 * 3600
    \/ SecondOfDay(t) = 22 * 3600 /\ t.microsecond = 0

RowAt(t, k) == IF k \in DOMAIN t THEN t[k] ELSE Row(0, 0)

\* the sum over the three shifts of the rows of (chat, date, currency)
AllShifts(t, chat_id, date, c) ==
    Plus(RowAt(t, Key(chat_id, date, "shift1", c)),
         Plus(RowAt(t, Key(chat_id, date, "shift2", c)),
              RowAt(t, Key(chat_id, date, "shift3", c))))

\* the archive rows of (chat, date, currency), each as often as the bag holds it
ArchiveRows(o, chat_id, date, c) ==
    {r \in DOMAIN o : r.chat_id = chat_id /\ r.date = date /\ r.currency = c}

RECURSIVE SumArchive(_, _)
SumArchive(o, rows) ==
    IF rows = {} THEN Row(0, 0)
    ELSE LET r == CHOOSE x \in rows : TRUE
         IN  Plus(Row(o[r] * r.total, o[r] * r.invoices), SumArchive(o, rows \ {r}))

\* C12: the figures of a totals query and of an archive query have an entry for USD
\* and for KHR, whatever rows exist: the row's figures for a shift, the sums over the
\* shifts when no shift is given, the sums of the archive rows for the archive, and
\* total 0 with 0 invoices where no row matches.
C12_QueriesCoverCurrencies ==
    (pc = "send" /\ last.op \in {"text", "total_all", "new_data"}) =>
        /\ DOMAIN reply = {"USD", "KHR"}
        /\ \A c \in {"USD", "KHR"} :
            reply[c] =
                CASE last.op = "text" ->
                        RowAt(totals, Key(last.chat_id, last.date, last.shift, c))
                  [] last.op = "total_all" ->
                        AllShifts(totals, last.chat_id, last.date, c)
                  [] last.op = "new_data" ->
                        SumArchive(old_totals,
                                   ArchiveRows(old_totals, last.chat_id, last.date, c))

\* Total All over two shifts of one business date: USD is the sum of both rows, KHR
\* has no row and is reported as zeros
C12_Witness ==
    /\ pc = "send"
    /\ last.op = "total_all"
    /\ reply["USD"] = Row(10, 2)
    /\ reply["KHR"] = Row(0, 0)
    /\ Cardinality({k \in DOMAIN totals : k[1] = last.chat_id /\ k[2] = last.date}) = 2

(***************************************************************************)
(* Start of the process                                                    *)
(***************************************************************************)
StartupStep ==
    /\ pc = "boot" =>
        /\ pc' = "started"
        /\ Consistent(totals', history')
        /\ history' = history
    /\ pc = "started" =>
        /\ pc' \in {"idle", "boot"}
        /\ totals' = totals
        /\ history' = history
        /\ pc' = "idle" => Consistent(totals', history')
    /\ pc' \in {"send", "ut_insert"} => pc \notin {"boot", "started"}

\* C15: a process that starts does nothing before its rebuild, which makes totals the
\* group sums of history; after the rebuild it does nothing to the tables before it
\* takes updates, and no handler runs before that: the first update after a start
\* finds totals equal to the group sums of history.
C15_RebuildBeforeEvents == [][StartupStep]_vars

\* a process started after a Reset or a close had zeroed rows, its rebuild done and no
\* update taken yet: the rows have their sums again
C15_Witness ==
    /\ pc = "started"
    /\ zeroed
    /\ \E k \in DOMAIN totals : totals[k].invoices > 0

\* C16: the last return of the classifier is never taken: every time of day is matched
\* by the test of shift 1, of shift 2, of shift 3 or of the night part of shift 3.
C16_FallbackUnreachable == Asked => answer.branch # "fallback"

\* 18:00:30 is classified by the last return, as shift3 of its own date
C16_Witness ==
    /\ Asked
    /\ probe.time = [hour |-> 18, minute |-> 0, second |-> 30, microsecond |-> 0]
    /\ answer.branch = "fallback"
    /\ answer.shift = "shift3"
    /\ answer.business_date = IsoDay[probe.date]

(***************************************************************************)
(* Frames                                                                  *)
(***************************************************************************)
LedgerAppendOnly ==
    \/ history' = history
    \/ /\ pc = "ut_commit"
       /\ pc' \in {"ut_done", "ut_insert"}
       /\ Len(history') = Len(history) + 1
       /\ SubSeq(history', 1, Len(history)) = history

\* C18: the ledger is append-only: every step leaves history as it was, except the
\* commit of a record, which leaves every row as it was and adds exactly one.
C18_LedgerAppendOnly == [][LedgerAppendOnly]_vars

\* two records are in the ledger, under their ids, and a rebuild after a Reset or a
\* close has just run
C18_Witness ==
    /\ pc = "send"
    /\ last.op = "recalc"
    /\ zeroed
    /\ Len(history) = 2
    /\ \A i \in DOMAIN history : history[i].id = i

ResetStep == pc = "idle" /\ pc' = "send" /\ last'.op = "reset"

ResetFrame ==
    ResetStep =>
        /\ DOMAIN totals' = DOMAIN totals
        /\ \A k \in DOMAIN totals :
            totals'[k] = IF k[1] = last'.chat_id /\ k[2] = last'.date
                             THEN Row(0, 0) ELSE totals[k]
        /\ history' = history
        /\ old_totals' = old_totals

\* C19: Reset of (chat, business date) sets total 0 and 0 invoices on every totals row
\* of that chat and date, whatever its shift and currency, deletes no row, and leaves
\* the rows of every other chat or date, history and old_totals as they were.
C19_ResetFrame == [][ResetFrame]_vars

\* a Reset has zeroed a row that has ledger entries while a row of another chat or
\* date keeps its invoices
C19_Witness ==
    /\ pc = "send"
    /\ last.op = "reset"
    /\ \E k \in DOMAIN totals :
        /\ k[1] = last.chat_id /\ k[2] = last.date
        /\ totals[k] = Row(0, 0)
    /\ \E k \in DOMAIN totals :
        /\ k[1] # last.chat_id \/ k[2] # last.date
        /\ totals[k].invoices > 0

RebuildStep == pc = "boot" \/ (pc = "idle" /\ pc' = "send" /\ last'.op = "recalc")

\* C20: a rebuild, at the start of the process or by /recalc, leaves the rows of
\* old_totals and the rows of history as they were.
C20_RebuildFrame == [][RebuildStep => (old_totals' = old_totals /\ history' = history)]_vars

\* a /recalc has run and the archive still holds a row with invoices
C20_Witness ==
    /\ pc = "send"
    /\ last.op = "recalc"
    /\ history # <<>>
    /\ \E r \in DOMAIN old_totals : r.invoices > 0

(***************************************************************************)
(* Handlers in flight                                                      *)
(***************************************************************************)
\* no handler is inside a database function
Quiet == \A t \in Tasks : task[t].pos \in {"idle", "await_send"}

\* C13: no update is lost when several records on one key are in flight: what
\* update_total has read of the totals row is still what the table holds when it
\* writes, and once no handler is inside a database function (and nothing was zeroed)
\* every totals row holds the sum and the number of the history rows of its key.
C13_NoLostUpdate ==
    /\ \A t \in Tasks :
        task[t].pos = "ut_selected" =>
            task[t].read = [k \in DOMAIN totals \cap {TaskKey} |-> totals[k]]
    /\ (Quiet /\ ~zeroed) => Consistent(totals, history)

\* two handlers have each recorded an amount on the same key and both still await the
\* send of their reply: the row counts both
C13_Witness ==
    /\ \A t \in Tasks : task[t].op = "text" /\ task[t].pos = "await_send"
    /\ \E t, u \in Tasks : task[t].amount = 5 /\ task[u].amount = 7
    /\ totals[TaskKey] = Row(12, 2)

RebuildExclusive ==
    \A t \in Tasks :
        /\ task[t].pos \in {"rc_deleted", "rc_selected"} =>
                \A u \in Tasks \ {t} : task'[u] = task[u]
        /\ (task[t].pos = "rc_selected" /\ task'[t].pos = "await_send") =>
                Consistent(totals', history')

\* C14: while a rebuild is between its DELETE and its commit no other handler takes a
\* step, and when it commits every totals row equals the sum and the number of the
\* history rows of its key, every key of history has its row, and there is no other
\* row: no record is missing from totals or counted twice.
C14_RebuildExclusive == [][RebuildExclusive]_vars

\* a rebuild and a record are in flight together, both through with the database:
\* the record is in history and in totals, once
C14_Witness ==
    /\ \E t, u \in Tasks :
        /\ task[t].op = "recalc" /\ task[t].pos = "await_send"
        /\ task[u].op = "text" /\ task[u].pos = "await_send"
    /\ history # <<>>
    /\ Consistent(totals, history)

\* the old_totals row move_to_old writes for the totals row r at key k
ArchiveRow(k, r) ==
    [chat_id |-> k[1], date |-> k[2], shift |-> k[3], currency |-> k[4],
     total |-> r.total, invoices |-> r.invoices]

CloseZeroesWhatItArchived ==
    \A t \in Tasks :
        (task[t].pos = "mo_inserted" /\ task'[t].pos = "await_send") =>
            \A k \in DOMAIN totals :
                (k[1] = TaskKey[1] /\ k[2] = TaskKey[2] /\ k[3] = TaskKey[3]) =>
                    /\ totals'[k] = Row(0, 0)
                    /\ k \in DOMAIN task[t].read
                    /\ totals[k] = task[t].read[k]
                    /\ ArchiveRow(k, totals[k]) \in DOMAIN old_totals

\* C17: a close is atomic with respect to the records in flight on its key: every
\* totals row its UPDATE zeroes holds, at that moment, exactly the total and invoices
\* the close has read and copied into old_totals, so no amount is zeroed without
\* having been archived.
C17_CloseAtomic == [][CloseZeroesWhatItArchived]_vars

\* a close is through with the database while the handler of a record on its key
\* still awaits its send: the row is zero and its figures are in the archive
C17_Witness ==
    /\ \E t, u \in Tasks :
        /\ task[t].op = "new_data" /\ task[t].pos = "await_send"
        /\ TaskKey \in DOMAIN task[t].read
        /\ task[t].read[TaskKey].invoices > 0
        /\ ArchiveRow(TaskKey, task[t].read[TaskKey]) \in DOMAIN old_totals
        /\ task[u].op = "text" /\ task[u].pos = "await_send"
    /\ totals[TaskKey] = Row(0, 0)

(***************************************************************************)
(* Ledger against aggregate and archive                                    *)
(***************************************************************************)
\* the figures the archive holds for the key k, over all its rows
Archived(o, k) ==
    SumArchive(o, {r \in DOMAIN o : /\ r.chat_id = k[1] /\ r.date = k[2]
                                    /\ r.shift = k[3] /\ r.currency = k[4]})

ArchiveKeys(o) == {Key(r.chat_id, r.date, r.shift, r.currency) : r \in DOMAIN o}

\* for every key, the totals row plus the archive rows give the ledger's sum and count
Conserved(t, o, h) ==
    \A k \in DOMAIN t \cup ArchiveKeys(o) \cup LedgerKeys(h) :
        Plus(RowAt(t, k), Archived(o, k))
            = Row(SumAmounts(h, LedgerRows(h, k)), Cardinality(LedgerRows(h, k)))

\* (a step that writes no table keeps the equation as it is)
ConservationStep ==
    (/\ <<totals, old_totals, history>>' # <<totals, old_totals, history>>
     /\ ~ResetStep
     /\ ~RebuildStep
     /\ Conserved(totals, old_totals, history))
        => Conserved(totals', old_totals', history')

\* C21: starting from the empty tables, every step that is neither a Reset nor a
\* rebuild (so every record and every close) keeps, for every key, the totals row plus
\* the old_totals rows of the key equal to the sum of the history amounts of the key,
\* and likewise for the invoices.
C21_ConservedAcrossClose ==
    Conserved(totals, old_totals, history) /\ [][ConservationStep]_vars

\* record, close, record on one key: one invoice in the archive, one in totals, two in
\* the ledger
C21_Witness ==
    /\ pc = "send"
    /\ last.op = "text"
    /\ \E k \in DOMAIN totals :
        /\ totals[k].invoices = 1
        /\ Archived(old_totals, k).invoices = 1
        /\ Cardinality(LedgerRows(history, k)) = 2
    /\ Conserved(totals, old_totals, history)

\* the sum and the number of the ledger entries with key k
LedgerFigures(h, k) == Row(SumAmounts(h, LedgerRows(h, k)), Cardinality(LedgerRows(h, k)))

\* the key k was closed: its totals row is zero and the archive holds invoices of it
ClosedKey(t, o, k) == t[k] = Row(0, 0) /\ Archived(o, k).invoices > 0

RebuildUndoesClose ==
    RebuildStep =>
        \A k \in DOMAIN totals :
            ClosedKey(totals, old_totals, k) =>
                /\ get_totals(totals', k[1], k[2], k[3])[k[4]] = LedgerFigures(history, k)
                /\ totals'[k].invoices > 0
                /\ get_old_totals(old_totals', k[1], k[2])
                       = get_old_totals(old_totals, k[1], k[2])
                /\ Archived(old_totals', k).invoices > 0
                /\ Archived(old_totals, k) = LedgerFigures(history, k)
                       => totals'[k] = Archived(old_totals', k)

\* C22: a rebuild (at the start of the process or by /recalc) of a key that a close
\* had zeroed and archived makes the totals query of the key report the full sum and
\* count of its history rows again, while the archive query of (chat, date) reports
\* what it reported before: the same invoices are counted in totals and in old_totals,
\* and where the archive held all of the key's history the two figures are equal.
C22_RebuildUndoesClose == [][RebuildUndoesClose]_vars

\* the process was restarted after a close: main has rebuilt totals, and a key holds
\* in totals exactly the invoices the archive holds of it, all of its history
C22_Witness ==
    /\ pc = "started"
    /\ \E k \in DOMAIN totals :
        /\ totals[k].invoices > 0
        /\ totals[k] = Archived(old_totals, k)
        /\ totals[k] = LedgerFigures(history, k)

====
